---- MODULE Spec2Model ----
EXTENDS Integers, Sequences, FiniteSets, TLC

(***************************************************************************)
(* Model of the interactive navigator of storage-cleanup                   *)
(* (src/src/ui/Navigator.tsx) with its persistence (src/src/persist.ts)    *)
(* and the measurement helpers of scanners.ts (src/unnamed/part_000).      *)
(*                                                                         *)
(* A path is the sequence of its component names, names being numbers:     *)
(* <<>> is "/", <<1>> the start path, <<1,2>> its second child.            *)
(* React state updaters are applied at the call that queues them: every    *)
(* handler's updates are flushed before the next event is handled, while   *)
(* the handler subscribed by useInput is replaced by an effect after the   *)
(* render (Resubscribe).  The                                              *)
(* one place where a closure reads a field that an updater queued in the   *)
(* same continuation assigns is RmDone, which takes both orders.  The      *)
(* entry objects of the cache Map are shared between renders, so a closure *)
(* that reads cache.get(p) sees the present fields of the entry it         *)
(* captured.                                                               *)
(***************************************************************************)

\* ---- program constants ----
TOP_N == 30
CONCURRENCY == 6
termRows == 24

\* ---- bounds of the model ----
\* tokens handed out by triggerScan in one session
MaxSeq == 2
\* removals started in one session
MaxRm == 1
\* failures the environment injects (a spawn that throws, an rm that rejects)
MaxFail == 1
\* how far the completions of one scan leave the order the measurements were
\* started in: a completion overtakes at most Reorder older measurements,
\* and at most Reorder completions of a scan overtake any
Reorder == 1
\* children of the start path in the wide tree, beyond the worker pool
WideExtra == 1
\* children of the start path in the big trees, beyond TOP_N
TopExtra == 1
\* children of the start path in the scroll trees, beyond the window of a
\* scanning entry
ScrollExtra == 3

Min(a, b) == IF a < b THEN a ELSE b
Max(a, b) == IF a > b THEN a ELSE b

\* ---- paths and the filesystem ----
Root == <<>>
startPath == <<1>>

dirname(p) == IF Len(p) = 0 THEN p ELSE SubSeq(p, 1, Len(p) - 1)

basenameNoSlash(p) == IF Len(p) = 0 THEN 0 ELSE p[Len(p)]

IsUnder(q, p) == Len(q) >= Len(p) /\ SubSeq(q, 1, Len(p)) = p

SmallTree == {<<>>, <<1>>, <<1, 1>>, <<1, 2>>}

WideTree == {<<>>, <<1>>} \cup {<<1, i>> : i \in 1..(CONCURRENCY + WideExtra)}

\* a start path with a bigger sibling
SiblingTree == {<<>>, <<1>>, <<2>>, <<1, 1>>, <<2, 2>>}

\* start paths with about TOP_N children
BigTree(n) == {<<>>, <<1>>} \cup {<<1, i>> : i \in 1..n}

BigTrees == {BigTree(n) : n \in TOP_N..(TOP_N + TopExtra)}

\* blocks a directory holds itself, without its subdirectories
OwnKb(p) == IF Len(p) = 2 THEN ((p[2] * 7) % 5) + 1 ELSE 1

RECURSIVE SumKb(_)
SumKb(S) == IF S = {} THEN 0
            ELSE LET x == CHOOSE y \in S : TRUE IN OwnKb(x) + SumKb(S \ {x})

\* du -skx: the recursive size, 0 when du prints nothing
runDuKb(p, f) == IF p \in f THEN SumKb({q \in f : IsUnder(q, p)}) ELSE 0

Children(p, f) == {q \in f : Len(q) = Len(p) + 1 /\ dirname(q) = p}

RECURSIVE DirOrder(_)
DirOrder(S) == IF S = {} THEN <<>>
               ELSE LET m == CHOOSE x \in S : \A y \in S : basenameNoSlash(y) <= basenameNoSlash(x)
                    IN <<m>> \o DirOrder(S \ {m})

\* find -mindepth 1 -maxdepth 1 -type d: the children in directory order,
\* which is not the alphabetical one; nothing for a missing directory
listDirsViaFind(p, f) == IF p \in f THEN DirOrder(Children(p, f)) ELSE <<>>

RECURSIVE InsertAlpha(_, _)
InsertAlpha(s, x) == IF s = <<>> THEN <<x>>
                     ELSE IF basenameNoSlash(x) < basenameNoSlash(s[1]) THEN <<x>> \o s
                     ELSE <<s[1]>> \o InsertAlpha(Tail(s), x)

RECURSIVE alphaSort(_)
alphaSort(s) == IF s = <<>> THEN <<>>
                ELSE InsertAlpha(alphaSort(SubSeq(s, 1, Len(s) - 1)), s[Len(s)])

\* ---- sized results ----
RECURSIVE InsertDesc(_, _)
InsertDesc(s, x) == IF s = <<>> THEN <<x>>
                    ELSE IF x.kb > s[1].kb THEN <<x>> \o s
                    ELSE <<s[1]>> \o InsertDesc(Tail(s), x)

RECURSIVE SortDescStable(_)
SortDescStable(s) == IF s = <<>> THEN <<>>
                     ELSE InsertDesc(SortDescStable(SubSeq(s, 1, Len(s) - 1)), s[Len(s)])

sortUnsorted(s) == s

\* results.sort((a, b) => b.kb - a.kb): stable, descending by kb
sortResults(s) == SortDescStable(s)

sliceAll(s) == s

\* dirSizes.slice(0, TOP_N)
sliceTopN(s) == SubSeq(s, 1, Min(Len(s), TOP_N))

FilterSeq(s, Keep(_)) ==
    LET F[i \in 0..Len(s)] ==
          IF i = 0 THEN <<>>
          ELSE IF Keep(s[i]) THEN Append(F[i - 1], s[i]) ELSE F[i - 1]
    IN F[Len(s)]

PathsOf(dirs) == [i \in 1..Len(dirs) |-> dirs[i].path]

Range(s) == {s[i] : i \in 1..Len(s)}

\* ---- cache entries ----
\* dirs undefined and dirs [] are told apart nowhere in the program
\* (getNavigableList, folderRowsAll and confirmDelete treat them alike):
\* both are <<>> here.
Placeholder == [status |-> "unscanned", alphaDirs |-> <<>>, dirs |-> <<>>, msg |-> "Unscanned. Press Enter to scan."]

Put(c, p, e) == [q \in (DOMAIN c) \cup {p} |-> IF q = p THEN e ELSE c[q]]

Del(c, p) == [q \in (DOMAIN c) \ {p} |-> c[q]]

EmptyMap == [q \in {} |-> Placeholder]

getNavigableList(c, p) ==
    IF p \notin DOMAIN c THEN <<>>
    ELSE IF Len(c[p].dirs) > 0 THEN PathsOf(c[p].dirs)
    ELSE c[p].alphaDirs

NavLen(c, p) == Len(getNavigableList(c, p))

\* ---- persistence (persist.ts) ----
saveCacheToDisk(d, p, dirs) == Put(d, p, [dirs |-> dirs])

loadUnsized(d) ==
    [p \in DOMAIN d |-> [status |-> "scanned", alphaDirs |-> <<>>, dirs |-> <<>>, msg |-> "none"]]

loadCacheFromDisk(d) ==
    [p \in DOMAIN d |-> [status |-> "scanned", alphaDirs |-> <<>>, dirs |-> d[p].dirs, msg |-> "none"]]

SE(p, k) == [path |-> p, kb |-> k]

\* stores an earlier session can have left behind: none; the start path as it
\* is now; the start path as it was before its first child was created; only
\* a child of the start path
Stores ==
    { EmptyMap,
      Put(EmptyMap, <<1>>, [dirs |-> <<SE(<<1, 2>>, 5), SE(<<1, 1>>, 3)>>]),
      Put(EmptyMap, <<1>>, [dirs |-> <<SE(<<1, 2>>, 5)>>]),
      Put(EmptyMap, <<1, 1>>, [dirs |-> <<>>]) }

VARIABLES
    fs,             \* the directories that exist
    disk,           \* cache.json: path -> PersistEntry
    cache,          \* the Map of DirCacheEntry
    currentPath, selectedIndex, viewOffset,
    scanSeq,        \* scanSeqRef.current
    scans,          \* the triggerScan invocations, by their mySeq
    progressDirs,   \* <<>> for null, else <<processed, total>>
    currentSizeKb,  \* -1 for null
    deletePrompt,
    rms,            \* the fs.promises.rm calls of confirmDelete
    alphaReq,       \* paths whose alphabetical listing is awaited
    visitDu,        \* paths whose per-visit size refresh is awaited
    reselect,       \* the pending setTimeout of go-to-parent
    hydrated, bootScanned, running,
    failBudget

vars == <<fs, disk, cache, currentPath, selectedIndex, viewOffset, scanSeq, scans,
          progressDirs, currentSizeKb, deletePrompt, rms, alphaReq, visitDu,
          reselect, hydrated, bootScanned, running, failBudget>>

NoProgress == <<>>
NoSize == -1
NoPrompt == [open |-> FALSE, path |-> <<>>, status |-> "confirm", error |-> FALSE]
NoReselect == [on |-> FALSE, parent |-> <<>>, cameFrom |-> <<>>, known |-> FALSE]


\* ---- the scan coordinator: triggerScan and measureDirs ----

markClearsDirs(c, p, force) ==
    IF p \notin DOMAIN c THEN c
    ELSE IF c[p].status = "scanning" THEN c
    ELSE IF ~force /\ c[p].status = "scanned" THEN c
    ELSE [c EXCEPT ![p] = [@ EXCEPT !.status = "scanning", !.msg = "Scanning", !.dirs = <<>>]]

\* the updater of Navigator.tsx:183-192
MarkScanning(c, p, force) ==
    IF p \notin DOMAIN c THEN c
    ELSE IF c[p].status = "scanning" THEN c
    ELSE IF ~force /\ c[p].status = "scanned" THEN c
    ELSE [c EXCEPT ![p] = [@ EXCEPT !.status = "scanning", !.msg = "Scanning"]]

failedDropsDirs(c, p) ==
    IF p \notin DOMAIN c THEN c
    ELSE [c EXCEPT ![p] = [@ EXCEPT !.status = "unscanned", !.msg = "Scan failed", !.dirs = <<>>]]

\* the updater of the catch clause, Navigator.tsx:227-235
ScanFailed(c, p) ==
    IF p \notin DOMAIN c THEN c
    ELSE [c EXCEPT ![p] = [@ EXCEPT !.status = "unscanned", !.msg = "Scan failed"]]

\* the updater of the commit, Navigator.tsx:210-221
CommitEntry(c, p, dirSizes) ==
    IF p \notin DOMAIN c THEN c
    ELSE [c EXCEPT ![p] = [@ EXCEPT !.status = "scanned", !.msg = "none", !.dirs = sliceTopN(dirSizes)]]

NeverStale(seq, mySeq) == FALSE

\* if (scanSeqRef.current !== mySeq) return, after the listing (line 197)
StaleAfterListing(seq, mySeq) == seq # mySeq

\* the same check after measureDirs (line 209)
StaleAfterMeasure(seq, mySeq) == seq # mySeq

throttlesFinal(prog, seq, mySeq, processed, total, emit) ==
    IF seq # mySeq THEN prog
    ELSE IF emit THEN <<processed, total>>
    ELSE prog

\* the check of the progress callback (line 201) and its throttle (line 203):
\* emit says whether more than 150 ms have passed since the last update
ProgressCb(prog, seq, mySeq, processed, total, emit) ==
    IF seq # mySeq THEN prog
    ELSE IF emit \/ processed = total THEN <<processed, total>>
    ELSE prog

workerPerChild(total) == Max(1, total)

Workers(total) == Min(CONCURRENCY, Max(1, total))

cursorLags(p, force, alpha) ==
    [p |-> p, force |-> force, pc |-> "measuring", alpha |-> alpha,
     idx |-> Workers(Len(alpha)) - 1, live |-> Min(Workers(Len(alpha)), Len(alpha)),
     inflight |-> 1..Min(Workers(Len(alpha)), Len(alpha)), results |-> <<>>, late |-> 0]

\* measureDirs up to its await: every worker has pulled one index; the
\* workers whose index is a child are measuring it
PoolStarted(p, force, alpha) ==
    [p |-> p, force |-> force, pc |-> "measuring", alpha |-> alpha,
     idx |-> Workers(Len(alpha)), live |-> Min(Workers(Len(alpha)), Len(alpha)),
     inflight |-> 1..Min(Workers(Len(alpha)), Len(alpha)), results |-> <<>>, late |-> 0]

Listing(p, force) ==
    [p |-> p, force |-> force, pc |-> "listing", alpha |-> <<>>,
     idx |-> 0, live |-> 0, inflight |-> {}, results |-> <<>>, late |-> 0]

\* a spawn that throws (child_process.spawn under EMFILE returns a child
\* without stdout, so ps.stdout.on throws inside the promise executor; the
\* spawns that follow it in the same tick throw as well): the awaited promise
\* rejects, and triggerScan's catch clause is the next thing to run
Rejected(sc) == [sc EXCEPT !.pc = "rejected", !.inflight = {}, !.live = 0]

\* triggerScan(p, force) up to its first await.  c is the cache the updater
\* meets, cl the cache the closure reads cache.get(p) from (line 195), fail
\* whether the first spawn throws.  Gives the cache, the progress display and
\* the record of the invocation.
triggerScan(c, cl, prog, p, force, fail) ==
    LET marked == MarkScanning(c, p, force)
        cached == p \in DOMAIN cl /\ Len(cl[p].alphaDirs) > 0
    IN IF fail /\ cached
       THEN [cache |-> marked, prog |-> <<0, Len(cl[p].alphaDirs)>>,
             scan |-> Rejected(PoolStarted(p, force, cl[p].alphaDirs))]
       ELSE IF fail
       THEN [cache |-> marked, prog |-> prog, scan |-> Rejected(Listing(p, force))]
       ELSE IF cached
       THEN [cache |-> marked, prog |-> <<0, Len(cl[p].alphaDirs)>>,
             scan |-> PoolStarted(p, force, cl[p].alphaDirs)]
       ELSE [cache |-> marked, prog |-> prog, scan |-> Listing(p, force)]

commitNeedsWrite(c, d, seq, mySeq, p, dirSizes, wr) ==
    IF StaleAfterMeasure(seq, mySeq)
    THEN [cache |-> c, disk |-> d, pc |-> "stale"]
    ELSE [cache |-> IF wr THEN CommitEntry(c, p, dirSizes) ELSE ScanFailed(c, p),
          disk |-> IF wr THEN saveCacheToDisk(d, p, sliceTopN(dirSizes)) ELSE d,
          pc |-> "sizing"]

\* what follows await measureDirs(...) for the invocation mySeq whose sorted
\* results are dirSizes: the stale check, the commit and the write-through
\* (wr: whether the write succeeds; its failure is swallowed), up to
\* await runDuKb(p) of line 225
afterMeasure(c, d, seq, mySeq, p, dirSizes, wr) ==
    IF StaleAfterMeasure(seq, mySeq)
    THEN [cache |-> c, disk |-> d, pc |-> "stale"]
    ELSE [cache |-> CommitEntry(c, p, dirSizes),
          disk |-> IF wr THEN saveCacheToDisk(d, p, sliceTopN(dirSizes)) ELSE d,
          pc |-> "sizing"]

\* the effect on [navigableLen], Navigator.tsx:285-290
keepIndex(idx, oldLen, newLen) == idx

clampIndex(idx, oldLen, newLen) ==
    IF newLen = oldLen THEN idx
    ELSE IF newLen = 0 THEN 0
    ELSE Max(0, Min(idx, newLen - 1))

FailChoices == IF failBudget > 0 THEN {FALSE, TRUE} ELSE {FALSE}

Spend(fail) == IF fail THEN failBudget - 1 ELSE failBudget

\* the boot effect (Navigator.tsx:168-176) has something to do
BootPending == ~bootScanned /\ startPath \in DOMAIN cache

\* a rejected await whose catch clause has not run yet
CatchPending == \E s \in 1..Len(scans) : scans[s].pc = "rejected"

\* a confirm was handled and its render is committed, but the effect of
\* useInput that subscribes the handler of that render has not run yet: the
\* handler subscribed is the one that saw the prompt in status confirm
HandlerPending == \E i \in 1..Len(rms) : rms[i].fresh

\* asynchronous completions and input are macrotasks: they come after the
\* load of the store, which is a microtask of the mount, after the pending
\* effects and after the pending catch clauses.  The re-subscription of
\* the input handler after a confirm is taken to come before every
\* completion and every input but a repeated confirm.
AsyncReady == running /\ hydrated /\ ~BootPending /\ ~CatchPending /\ ~HandlerPending

\* the catch and finally clauses of triggerScan (Navigator.tsx:226-240)
CatchScan(s) ==
    /\ running
    /\ s \in 1..Len(scans) /\ scans[s].pc = "rejected"
    /\ scans' = [scans EXCEPT ![s] = [@ EXCEPT !.pc = "failed"]]
    /\ cache' = ScanFailed(cache, scans[s].p)
    /\ progressDirs' = IF scanSeq = s THEN NoProgress ELSE progressDirs
    /\ UNCHANGED <<fs, disk, currentPath, selectedIndex, viewOffset, scanSeq, currentSizeKb,
                   deletePrompt, rms, alphaReq, visitDu, reselect, hydrated, bootScanned,
                   running, failBudget>>

UserReady == AsyncReady /\ ~reselect.on

Browsing == UserReady /\ ~deletePrompt.open

\* the state once the component is mounted and its effects have run: the
\* placeholder of the start path, its listing and its size refresh awaited
InitWith(tree, store) ==
    /\ fs = tree
    /\ disk = store
    /\ cache = Put(EmptyMap, startPath, Placeholder)
    /\ currentPath = startPath
    /\ selectedIndex = 0
    /\ viewOffset = 0
    /\ scanSeq = 0
    /\ scans = <<>>
    /\ progressDirs = NoProgress
    /\ currentSizeKb = NoSize
    /\ deletePrompt = NoPrompt
    /\ rms = <<>>
    /\ alphaReq = {startPath}
    /\ visitDu = {startPath}
    /\ reselect = NoReselect
    /\ hydrated = FALSE
    /\ bootScanned = FALSE
    /\ running = TRUE
    /\ failBudget = MaxFail

Init == \E store \in Stores : InitWith(SmallTree, store)

\* Load persisted cache on boot (Navigator.tsx:156-165)
Hydrate ==
    /\ running /\ ~hydrated
    /\ hydrated' = TRUE
    /\ cache' = IF DOMAIN disk # {} THEN loadCacheFromDisk(disk) ELSE cache
    /\ selectedIndex' = clampIndex(selectedIndex, NavLen(cache, currentPath), NavLen(cache', currentPath))
    /\ UNCHANGED <<fs, disk, currentPath, viewOffset, scanSeq, scans, progressDirs,
                   currentSizeKb, deletePrompt, rms, alphaReq, visitDu, reselect,
                   bootScanned, running, failBudget>>

\* Auto-scan on first launch (Navigator.tsx:168-176)
BootScan ==
    /\ running /\ BootPending /\ ~CatchPending /\ scanSeq < MaxSeq
    /\ \E fail \in FailChoices :
         LET t == triggerScan(cache, cache, progressDirs, startPath,
                              cache[startPath].status = "scanned", fail)
         IN /\ cache' = t.cache
            /\ progressDirs' = t.prog
            /\ scans' = Append(scans, t.scan)
            /\ failBudget' = Spend(fail)
    /\ bootScanned' = TRUE
    /\ scanSeq' = scanSeq + 1
    /\ UNCHANGED <<fs, disk, currentPath, selectedIndex, viewOffset, currentSizeKb,
                   deletePrompt, rms, alphaReq, visitDu, reselect, hydrated, running>>

\* listDirsViaFind(p) of line 196 resolves for the invocation s
ListingDone(s) ==
    /\ AsyncReady
    /\ s \in 1..Len(scans) /\ scans[s].pc = "listing"
    /\ LET sc == scans[s]
           alpha == listDirsViaFind(sc.p, fs)
           oldLen == NavLen(cache, currentPath)
       IN IF StaleAfterListing(scanSeq, s)
          THEN /\ scans' = [scans EXCEPT ![s] = [sc EXCEPT !.pc = "stale"]]
               /\ UNCHANGED <<cache, disk, progressDirs, selectedIndex, failBudget>>
          ELSE IF Len(alpha) = 0
          THEN \* the only worker finds nothing to pull: the pool is complete
               \E wfail \in FailChoices :
                 LET a == afterMeasure(cache, disk, scanSeq, s, sc.p, <<>>, ~wfail)
                 IN /\ scans' = [scans EXCEPT ![s] = [PoolStarted(sc.p, sc.force, alpha) EXCEPT !.pc = a.pc]]
                    /\ cache' = a.cache
                    /\ disk' = a.disk
                    /\ progressDirs' = <<0, 0>>
                    /\ selectedIndex' = clampIndex(selectedIndex, oldLen, NavLen(a.cache, currentPath))
                    /\ failBudget' = Spend(wfail)
          ELSE \E fail \in FailChoices :
                 /\ scans' = [scans EXCEPT ![s] =
                                IF fail THEN Rejected(PoolStarted(sc.p, sc.force, alpha))
                                ELSE PoolStarted(sc.p, sc.force, alpha)]
                 /\ progressDirs' = <<0, Len(alpha)>>
                 /\ failBudget' = Spend(fail)
                 /\ UNCHANGED <<cache, disk, selectedIndex>>
    /\ UNCHANGED <<fs, currentPath, viewOffset, scanSeq, currentSizeKb, deletePrompt,
                   rms, alphaReq, visitDu, reselect, hydrated, bootScanned, running>>

\* runDuKb(d) resolves in a worker of the invocation s for the child alpha[i]:
\* the worker pushes the result, reports progress and pulls the next index.
\* fail: the spawn for the next index throws or, when this result completes
\* the pool of a scan that commits, the write to the store throws.
MeasureDone(s, i) ==
    /\ AsyncReady
    /\ s \in 1..Len(scans) /\ scans[s].pc \in {"measuring", "failed"}
    /\ i \in scans[s].inflight
    /\ Cardinality({j \in scans[s].inflight : j < i}) <= Reorder
    /\ (\A j \in scans[s].inflight : j >= i) \/ scans[s].late < Reorder
    /\ LET sc == scans[s]
           total == Len(sc.alpha)
           res == Append(sc.results, SE(sc.alpha[i], runDuKb(sc.alpha[i], fs)))
           more == sc.idx < total
           last == ~more /\ sc.live = 1 /\ sc.pc = "measuring"
           oldLen == NavLen(cache, currentPath)
       IN \E emit \in BOOLEAN, fail \in FailChoices :
            LET prog1 == ProgressCb(progressDirs, scanSeq, s, Len(res), total, emit)
                spawned == more /\ ~fail
                sc1 == [sc EXCEPT !.results = res, !.idx = sc.idx + 1,
                                  !.inflight = (sc.inflight \ {i}) \cup (IF spawned THEN {sc.idx + 1} ELSE {}),
                                  !.live = IF spawned THEN sc.live ELSE sc.live - 1,
                                  !.late = IF \A j \in sc.inflight : j >= i THEN sc.late ELSE sc.late + 1]
                a == afterMeasure(cache, disk, scanSeq, s, sc.p, sortResults(res), ~fail)
            IN /\ fail => (more \/ (last /\ ~StaleAfterMeasure(scanSeq, s)))
               /\ emit <=> (scanSeq = s /\ Len(res) < total /\ emit)
               /\ IF more /\ fail /\ sc.pc = "measuring"
                  THEN \* the worker's promise rejects, and Promise.all with it;
                       \* the other workers go on
                       /\ scans' = [scans EXCEPT ![s] = [sc1 EXCEPT !.pc = "rejected"]]
                       /\ progressDirs' = prog1
                       /\ UNCHANGED <<cache, disk>>
                  ELSE IF last
                  THEN \* Promise.all resolves: sort, then the continuation
                       /\ scans' = [scans EXCEPT ![s] = [sc1 EXCEPT !.pc = a.pc]]
                       /\ cache' = a.cache
                       /\ disk' = a.disk
                       /\ progressDirs' = prog1
                  ELSE /\ scans' = [scans EXCEPT ![s] = sc1]
                       /\ progressDirs' = prog1
                       /\ UNCHANGED <<cache, disk>>
               /\ failBudget' = Spend(fail)
               /\ selectedIndex' = clampIndex(selectedIndex, oldLen, NavLen(cache', currentPath))
    /\ UNCHANGED <<fs, currentPath, viewOffset, scanSeq, currentSizeKb, deletePrompt,
                   rms, alphaReq, visitDu, reselect, hydrated, bootScanned, running>>

\* runDuKb(p) of line 225 resolves, then the finally clause
SizeDone(s) ==
    /\ AsyncReady
    /\ s \in 1..Len(scans) /\ scans[s].pc = "sizing"
    /\ scans' = [scans EXCEPT ![s] = [@ EXCEPT !.pc = "done"]]
    /\ currentSizeKb' = IF scanSeq = s THEN runDuKb(scans[s].p, fs) ELSE currentSizeKb
    /\ progressDirs' = IF scanSeq = s THEN NoProgress ELSE progressDirs
    /\ UNCHANGED <<fs, disk, cache, currentPath, selectedIndex, viewOffset, scanSeq,
                   deletePrompt, rms, alphaReq, visitDu, reselect, hydrated,
                   bootScanned, running, failBudget>>


\* ---- the navigation state machine: useInput and the effects it sets off ----

computeFolderViewportSize(c, p) ==
    LET msgLines == IF p \in DOMAIN c /\ c[p].msg # "none" THEN 1 ELSE 0
        progLines == IF p \in DOMAIN c /\ c[p].status = "scanning" THEN 2 ELSE 0
        reserved == 1 + 1 + msgLines + progLines + 1 + 1 + 0 + 1
    IN Max(5, termRows - reserved)

scrollRuleOnly(len, selected, currentOffset, viewSize) ==
    IF selected < currentOffset THEN selected
    ELSE IF selected >= currentOffset + viewSize THEN selected - viewSize + 1
    ELSE currentOffset

adjustViewport(len, selected, currentOffset, viewSize) ==
    IF len <= viewSize THEN 0
    ELSE IF selected < currentOffset THEN selected
    ELSE IF selected >= currentOffset + viewSize THEN selected - viewSize + 1
    ELSE currentOffset

\* the offset the rows are cut at (Navigator.tsx:416-419); the rows are the
\* sized children
safeOffset(c, p, off) ==
    LET total == IF p \in DOMAIN c THEN Len(c[p].dirs) ELSE 0
    IN Min(off, Max(0, total - computeFolderViewportSize(c, p)))

normalizedIndex == IF NavLen(cache, currentPath) > 0
                   THEN Min(selectedIndex, NavLen(cache, currentPath) - 1) ELSE 0

\* the path of list[normalizedIndex]
selectedPath == getNavigableList(cache, currentPath)[normalizedIndex + 1]

\* const next of the two updaters (Navigator.tsx:317 and 323)
nextUp(i, len) == IF len > 0 THEN (i - 1 + len) % len ELSE 0

stopAtBottom(i, len) == IF len > 0 THEN Min(i + 1, len - 1) ELSE 0

nextDown(i, len) == IF len > 0 THEN (i + 1) % len ELSE 0

\* key.upArrow
MoveUp ==
    /\ Browsing
    /\ LET len == NavLen(cache, currentPath)
           next == nextUp(selectedIndex, len)
       IN /\ selectedIndex' = next
          /\ viewOffset' = adjustViewport(len, next, viewOffset, computeFolderViewportSize(cache, currentPath))
    /\ UNCHANGED <<fs, disk, cache, currentPath, scanSeq, scans, progressDirs, currentSizeKb,
                   deletePrompt, rms, alphaReq, visitDu, reselect, hydrated, bootScanned,
                   running, failBudget>>

\* key.downArrow
MoveDown ==
    /\ Browsing
    /\ LET len == NavLen(cache, currentPath)
           next == nextDown(selectedIndex, len)
       IN /\ selectedIndex' = next
          /\ viewOffset' = adjustViewport(len, next, viewOffset, computeFolderViewportSize(cache, currentPath))
    /\ UNCHANGED <<fs, disk, cache, currentPath, scanSeq, scans, progressDirs, currentSizeKb,
                   deletePrompt, rms, alphaReq, visitDu, reselect, hydrated, bootScanned,
                   running, failBudget>>

\* input 'G' (input 'g' sets 0)
JumpBottom ==
    /\ Browsing
    /\ selectedIndex' = Max(0, NavLen(cache, currentPath) - 1)
    /\ UNCHANGED <<fs, disk, cache, currentPath, viewOffset, scanSeq, scans, progressDirs,
                   currentSizeKb, deletePrompt, rms, alphaReq, visitDu, reselect, hydrated,
                   bootScanned, running, failBudget>>

JumpTop ==
    /\ Browsing
    /\ selectedIndex' = 0
    /\ UNCHANGED <<fs, disk, cache, currentPath, viewOffset, scanSeq, scans, progressDirs,
                   currentSizeKb, deletePrompt, rms, alphaReq, visitDu, reselect, hydrated,
                   bootScanned, running, failBudget>>

noPlaceholder(c, p) == c

\* the effect on [currentPath] (Navigator.tsx:123-153) for the path visited:
\* the placeholder when the path has no entry
visitCache(c, p) == IF p \in DOMAIN c THEN c ELSE Put(c, p, Placeholder)

\* key.rightArrow, key.return, ' ': enter the selected directory
Enter ==
    /\ Browsing /\ scanSeq < MaxSeq
    /\ NavLen(cache, currentPath) > 0
    /\ \E fail \in FailChoices :
         LET nextPath == selectedPath
             t == triggerScan(visitCache(cache, nextPath), cache, progressDirs, nextPath, TRUE, fail)
         IN /\ currentPath' = nextPath
            /\ cache' = t.cache
            /\ progressDirs' = t.prog
            /\ scans' = Append(scans, t.scan)
            /\ alphaReq' = IF nextPath \in DOMAIN cache THEN alphaReq ELSE alphaReq \cup {nextPath}
            /\ visitDu' = visitDu \cup {nextPath}
            /\ failBudget' = Spend(fail)
    /\ scanSeq' = scanSeq + 1
    /\ selectedIndex' = 0
    /\ viewOffset' = 0
    /\ currentSizeKb' = NoSize
    /\ UNCHANGED <<fs, disk, deletePrompt, rms, reselect, hydrated, bootScanned, running>>

\* key.leftArrow, 'b': go to the parent; the scan is triggered by the handler,
\* the placeholder of an uncached parent is inserted by the effect after it
alwaysUp(parent, cur) == TRUE

\* if (parent && parent !== currentPath), line 329
hasParent(parent, cur) == parent # cur

GoParent ==
    /\ Browsing /\ scanSeq < MaxSeq
    /\ hasParent(dirname(currentPath), currentPath)
    /\ \E fail \in FailChoices :
         LET parent == dirname(currentPath)
             t == triggerScan(cache, cache, progressDirs, parent, TRUE, fail)
         IN /\ currentPath' = parent
            /\ cache' = visitCache(t.cache, parent)
            /\ progressDirs' = t.prog
            /\ scans' = Append(scans, t.scan)
            /\ alphaReq' = IF parent \in DOMAIN cache THEN alphaReq ELSE alphaReq \cup {parent}
            /\ visitDu' = visitDu \cup {parent}
            /\ reselect' = [on |-> TRUE, parent |-> parent, cameFrom |-> currentPath,
                            known |-> parent \in DOMAIN cache]
            /\ failBudget' = Spend(fail)
    /\ scanSeq' = scanSeq + 1
    /\ selectedIndex' = 0
    /\ viewOffset' = 0
    /\ currentSizeKb' = NoSize
    /\ UNCHANGED <<fs, disk, deletePrompt, rms, hydrated, bootScanned, running>>

IndexOf(s, x) == IF x \in Range(s) THEN CHOOSE i \in 1..Len(s) : s[i] = x /\ \A j \in 1..(i - 1) : s[j] # x ELSE 0

\* the setTimeout of go-to-parent: highlight the child we came from, read
\* through the cache of the render the handler ran in
ReselectFire ==
    /\ AsyncReady /\ reselect.on
    /\ LET arr == IF reselect.known THEN getNavigableList(cache, reselect.parent) ELSE <<>>
           idx == IndexOf(arr, reselect.cameFrom)
       IN selectedIndex' = IF idx > 0 THEN idx - 1 ELSE selectedIndex
    /\ reselect' = NoReselect
    /\ UNCHANGED <<fs, disk, cache, currentPath, viewOffset, scanSeq, scans, progressDirs,
                   currentSizeKb, deletePrompt, rms, alphaReq, visitDu, hydrated,
                   bootScanned, running, failBudget>>

\* input 'r'
Rescan ==
    /\ Browsing /\ scanSeq < MaxSeq
    /\ \E fail \in FailChoices :
         LET t == triggerScan(cache, cache, progressDirs, currentPath, TRUE, fail)
         IN /\ cache' = t.cache
            /\ progressDirs' = t.prog
            /\ scans' = Append(scans, t.scan)
            /\ failBudget' = Spend(fail)
    /\ scanSeq' = scanSeq + 1
    /\ UNCHANGED <<fs, disk, currentPath, selectedIndex, viewOffset, currentSizeKb,
                   deletePrompt, rms, alphaReq, visitDu, reselect, hydrated, bootScanned, running>>

\* input 'q', key.escape: process.exit(0).  What the process held is gone;
\* the filesystem and the store remain.
Quit ==
    /\ Browsing
    /\ running' = FALSE
    /\ cache' = EmptyMap
    /\ currentPath' = startPath
    /\ selectedIndex' = 0
    /\ viewOffset' = 0
    /\ scanSeq' = 0
    /\ scans' = <<>>
    /\ progressDirs' = NoProgress
    /\ currentSizeKb' = NoSize
    /\ rms' = <<>>
    /\ alphaReq' = {}
    /\ visitDu' = {}
    /\ failBudget' = 0
    /\ UNCHANGED <<fs, disk, deletePrompt, reselect, hydrated, bootScanned>>

\* the alphabetical listing of a placeholder arrives (lines 133-139, 359-360)
EnsureListingDone(p) ==
    /\ AsyncReady /\ p \in alphaReq
    /\ alphaReq' = alphaReq \ {p}
    /\ cache' = IF p \in DOMAIN cache
                THEN [cache EXCEPT ![p] = [@ EXCEPT !.alphaDirs = alphaSort(listDirsViaFind(p, fs))]]
                ELSE cache
    /\ selectedIndex' = clampIndex(selectedIndex, NavLen(cache, currentPath), NavLen(cache', currentPath))
    /\ UNCHANGED <<fs, disk, currentPath, viewOffset, scanSeq, scans, progressDirs,
                   currentSizeKb, deletePrompt, rms, visitDu, reselect, hydrated,
                   bootScanned, running, failBudget>>

\* the per-visit size refresh resolves (lines 144-152)
VisitDuDone(p) ==
    /\ AsyncReady /\ p \in visitDu
    /\ visitDu' = visitDu \ {p}
    /\ currentSizeKb' = runDuKb(p, fs)
    /\ UNCHANGED <<fs, disk, cache, currentPath, selectedIndex, viewOffset, scanSeq, scans,
                   progressDirs, deletePrompt, rms, alphaReq, reselect, hydrated,
                   bootScanned, running, failBudget>>

\* ---- the deletion flow ----

\* input 'd'
RequestDelete ==
    /\ Browsing
    /\ NavLen(cache, currentPath) > 0
    /\ deletePrompt' = [open |-> TRUE, path |-> selectedPath, status |-> "confirm", error |-> FALSE]
    /\ UNCHANGED <<fs, disk, cache, currentPath, selectedIndex, viewOffset, scanSeq, scans,
                   progressDirs, currentSizeKb, rms, alphaReq, visitDu, reselect, hydrated,
                   bootScanned, running, failBudget>>

\* key.escape, 'n' while the prompt is shown, whatever its status
CancelAllowed(prompt) == prompt.open

CancelDelete ==
    /\ UserReady /\ CancelAllowed(deletePrompt)
    /\ deletePrompt' = NoPrompt
    /\ UNCHANGED <<fs, disk, cache, currentPath, selectedIndex, viewOffset, scanSeq, scans,
                   progressDirs, currentSizeKb, rms, alphaReq, visitDu, reselect, hydrated,
                   bootScanned, running, failBudget>>

\* 'y', key.return while the prompt is shown and not working: confirmDelete
\* up to its await
ConfirmDelete ==
    /\ UserReady /\ deletePrompt.open /\ deletePrompt.status # "working"
    /\ Len(rms) < MaxRm
    /\ deletePrompt' = [deletePrompt EXCEPT !.status = "working", !.error = FALSE]
    /\ rms' = Append(rms, [target |-> deletePrompt.path, cur |-> currentPath, st |-> "running",
                            fresh |-> TRUE])
    /\ UNCHANGED <<fs, disk, cache, currentPath, selectedIndex, viewOffset, scanSeq, scans,
                   progressDirs, currentSizeKb, alphaReq, visitDu, reselect, hydrated,
                   bootScanned, running, failBudget>>

\* the effect of useInput runs for the render that shows the prompt working:
\* the handler subscribed from now on sees deletePrompt.status = 'working'
Resubscribe ==
    /\ running /\ HandlerPending
    /\ rms' = [i \in 1..Len(rms) |-> [rms[i] EXCEPT !.fresh = FALSE]]
    /\ UNCHANGED <<fs, disk, cache, currentPath, selectedIndex, viewOffset, scanSeq, scans,
                   progressDirs, currentSizeKb, deletePrompt, alphaReq, visitDu, reselect,
                   hydrated, bootScanned, running, failBudget>>

\* 'y', key.return once more, handled by the handler still subscribed: its
\* closure holds the prompt in status confirm, so the test of line 300
\* passes and confirmDelete runs again up to its await; its updater finds
\* the prompt working and leaves it so
ConfirmAgain ==
    /\ running /\ deletePrompt.open
    /\ Len(rms) <= MaxRm
    /\ \E i \in 1..Len(rms) :
         /\ rms[i].fresh /\ rms[i].st = "running"
         /\ rms' = Append(rms, [target |-> rms[i].target, cur |-> rms[i].cur, st |-> "running",
                                 fresh |-> TRUE])
    /\ deletePrompt' = [deletePrompt EXCEPT !.status = "working", !.error = FALSE]
    /\ UNCHANGED <<fs, disk, cache, currentPath, selectedIndex, viewOffset, scanSeq, scans,
                   progressDirs, currentSizeKb, alphaReq, visitDu, reselect, hydrated,
                   bootScanned, running, failBudget>>

keepAll(parentEntry, targetPath) == parentEntry

\* the filters of Navigator.tsx:264-265 on the parent's entry
stripChild(parentEntry, targetPath) ==
    [parentEntry EXCEPT
       !.alphaDirs = FilterSeq(@, LAMBDA d : d # targetPath),
       !.dirs = FilterSeq(@, LAMBDA d : d.path # targetPath)]

\* the updater of Navigator.tsx:258-268
removeFromCache(c, targetPath) ==
    LET next == Del(c, targetPath)
        parent == dirname(targetPath)
    IN IF parent \in DOMAIN next
       THEN [next EXCEPT ![parent] = stripChild(@, targetPath)]
       ELSE next

\* fs.promises.rm(target, {recursive, force}) resolves: the rest of confirmDelete.
\* The updater of lines 258-268 is queued behind setDeletePrompt(null) of
\* line 257, outside an input handler.  flushed: the root renders at each of
\* the two calls (a synchronous legacy root), so the updater has filtered the
\* parent's entry when triggerScan reads entryBefore.alphaDirs at line 195;
\* otherwise the updates are batched until the continuation yields (the
\* automatic batching of a concurrent root), and triggerScan reads the
\* childPaths as they were before the removal.
RmDone(i) ==
    /\ AsyncReady /\ scanSeq < MaxSeq
    /\ i \in 1..Len(rms) /\ rms[i].st = "running"
    /\ \E fail \in FailChoices, flushed \in BOOLEAN :
         LET targetPath == rms[i].target
             cur == rms[i].cur
             goUp == cur = targetPath /\ dirname(targetPath) # targetPath
             scanPath == IF cur = targetPath THEN dirname(targetPath) ELSE cur
             c1 == removeFromCache(cache, targetPath)
             t == triggerScan(c1, IF flushed THEN c1 ELSE cache, progressDirs, scanPath, TRUE, fail)
             c2 == IF goUp THEN visitCache(t.cache, scanPath) ELSE t.cache
             path2 == IF goUp THEN scanPath ELSE currentPath
         IN /\ fs' = {q \in fs : ~IsUnder(q, targetPath)}
            /\ cache' = c2
            /\ progressDirs' = t.prog
            /\ scans' = Append(scans, t.scan)
            /\ currentPath' = path2
            /\ alphaReq' = IF goUp /\ scanPath \notin DOMAIN t.cache THEN alphaReq \cup {scanPath} ELSE alphaReq
            /\ visitDu' = IF goUp THEN visitDu \cup {scanPath} ELSE visitDu
            /\ currentSizeKb' = IF goUp THEN NoSize ELSE currentSizeKb
            /\ viewOffset' = IF goUp THEN 0 ELSE viewOffset
            /\ selectedIndex' = clampIndex(IF goUp THEN 0 ELSE selectedIndex,
                                           NavLen(cache, currentPath), NavLen(c2, path2))
            /\ failBudget' = Spend(fail)
    /\ rms' = [rms EXCEPT ![i] = [@ EXCEPT !.st = "ok"]]
    /\ deletePrompt' = NoPrompt
    /\ scanSeq' = scanSeq + 1
    /\ UNCHANGED <<disk, reselect, hydrated, bootScanned, running>>

\* fs.promises.rm rejects: the catch clause of confirmDelete
RmFail(i) ==
    /\ AsyncReady /\ failBudget > 0
    /\ i \in 1..Len(rms) /\ rms[i].st = "running"
    /\ rms' = [rms EXCEPT ![i] = [@ EXCEPT !.st = "failed"]]
    /\ deletePrompt' = IF deletePrompt.open
                       THEN [deletePrompt EXCEPT !.status = "confirm", !.error = TRUE]
                       ELSE deletePrompt
    /\ failBudget' = failBudget - 1
    /\ UNCHANGED <<fs, disk, cache, currentPath, selectedIndex, viewOffset, scanSeq, scans,
                   progressDirs, currentSizeKb, alphaReq, visitDu, reselect, hydrated,
                   bootScanned, running>>

Next ==
    \/ Hydrate
    \/ BootScan
    \/ \E s \in 1..Len(scans) : ListingDone(s)
    \/ \E s \in 1..Len(scans) : \E i \in scans[s].inflight : MeasureDone(s, i)
    \/ \E s \in 1..Len(scans) : SizeDone(s)
    \/ \E s \in 1..Len(scans) : CatchScan(s)
    \/ MoveUp
    \/ MoveDown
    \/ JumpTop
    \/ JumpBottom
    \/ Enter
    \/ GoParent
    \/ ReselectFire
    \/ Rescan
    \/ Quit
    \/ \E p \in alphaReq : EnsureListingDone(p)
    \/ \E p \in visitDu : VisitDuDone(p)
    \/ RequestDelete
    \/ CancelDelete
    \/ ConfirmDelete
    \/ Resubscribe
    \/ \E i \in 1..Len(rms) : RmDone(i)
    \/ \E i \in 1..Len(rms) : RmFail(i)

Spec == Init /\ [][Next]_vars

\* ---- a start path with more children than the pool has workers ----
\* The scans of the start path on an empty store: a worker that finishes a
\* child pulls the next one, which is where a spawn can throw in a scan that
\* a rescan has superseded.
InitWide == InitWith(WideTree, EmptyMap)

NextWide ==
    \/ Hydrate
    \/ BootScan
    \/ \E s \in 1..Len(scans) : ListingDone(s)
    \/ \E s \in 1..Len(scans) : \E i \in scans[s].inflight : MeasureDone(s, i)
    \/ \E s \in 1..Len(scans) : SizeDone(s)
    \/ \E s \in 1..Len(scans) : CatchScan(s)
    \/ Rescan
    \/ \E p \in alphaReq : EnsureListingDone(p)
    \/ \E p \in visitDu : VisitDuDone(p)

SpecWide == InitWide /\ [][NextWide]_vars


\* ---- start paths with about TOP_N children ----
\* The results of measureDirs for the listing alpha when the child alpha[last]
\* finishes last and the others finish in the order they were started in,
\* up to the result of alpha[last]
ResultsBut(alpha, last, f) ==
    [k \in 1..(Len(alpha) - 1) |->
       LET d == alpha[IF k < last THEN k ELSE k + 1] IN SE(d, runDuKb(d, f))]

\* the store a session leaves that scanned the start path of tree (lines
\* 45-48 and 223)
WrittenStore(tree) ==
    LET alpha == listDirsViaFind(startPath, tree)
        results == [k \in 1..Len(alpha) |-> SE(alpha[k], runDuKb(alpha[k], tree))]
    IN saveCacheToDisk(EmptyMap, startPath, sliceTopN(sortResults(results)))

\* a session on an empty store whose boot scan was superseded by rescans
\* before its listing arrived, the last rescan being one measurement before
\* its pool completes: the listings and the size refresh of the mount have
\* arrived, the workers but one have run out of children
NearlyMeasured(tree, last) ==
    LET alpha == listDirsViaFind(startPath, tree)
        n == Len(alpha)
        entry == [Placeholder EXCEPT !.alphaDirs = alphaSort(alpha)]
    IN /\ fs = tree
       /\ disk = EmptyMap
       /\ cache = MarkScanning(Put(EmptyMap, startPath, entry), startPath, FALSE)
       /\ currentPath = startPath
       /\ selectedIndex = 0
       /\ viewOffset = 0
       /\ scanSeq = MaxSeq
       /\ scans = [t \in 1..MaxSeq |->
                     IF t < MaxSeq
                     THEN [Listing(startPath, t > 1) EXCEPT !.pc = "stale"]
                     ELSE [PoolStarted(startPath, t > 1, alpha) EXCEPT
                             !.idx = n + CONCURRENCY - 1, !.live = 1, !.inflight = {last},
                             !.results = ResultsBut(alpha, last, tree)]]
       /\ progressDirs = <<n - 1, n>>
       /\ currentSizeKb = runDuKb(startPath, tree)
       /\ deletePrompt = NoPrompt
       /\ rms = <<>>
       /\ alphaReq = {}
       /\ visitDu = {}
       /\ reselect = NoReselect
       /\ hydrated = TRUE
       /\ bootScanned = TRUE
       /\ running = TRUE
       /\ failBudget = MaxFail

\* a scan about to complete, or a new session in a directory that has
\* lost children since an earlier session wrote the store
InitTopN ==
    \/ \E tree \in BigTrees : \E last \in {1, Cardinality(Children(startPath, tree))} :
         NearlyMeasured(tree, last)
    \/ \E tree \in BigTrees : InitWith(SmallTree, WrittenStore(tree))

NextTopN ==
    \/ Hydrate
    \/ BootScan
    \/ \E s \in 1..Len(scans) : ListingDone(s)
    \/ \E s \in 1..Len(scans) : \E i \in scans[s].inflight : MeasureDone(s, i)
    \/ \E s \in 1..Len(scans) : SizeDone(s)
    \/ \E s \in 1..Len(scans) : CatchScan(s)
    \/ JumpTop
    \/ JumpBottom
    \/ \E p \in alphaReq : EnsureListingDone(p)
    \/ \E p \in visitDu : VisitDuDone(p)
    \/ RequestDelete
    \/ CancelDelete
    \/ ConfirmDelete
    \/ Resubscribe
    \/ \E i \in 1..Len(rms) : RmDone(i)
    \/ \E i \in 1..Len(rms) : RmFail(i)

SpecTopN == InitTopN /\ [][NextTopN]_vars


\* ---- lists about as long as the window ----
\* numbers of children around the window sizes: the window has
\* termRows - 8 rows while the entry is scanning and termRows - 5 once it
\* is scanned
ScrollLens == (termRows - 7)..(termRows - 7 + ScrollExtra)

InitScroll == \E n \in ScrollLens : NearlyMeasured(BigTree(n), 1)

\* the arrow keys, g and G, while the scan completes
NextScroll ==
    \/ MoveUp
    \/ MoveDown
    \/ JumpTop
    \/ JumpBottom
    \/ \E s \in 1..Len(scans) : \E i \in scans[s].inflight : MeasureDone(s, i)
    \/ \E s \in 1..Len(scans) : SizeDone(s)

SpecScroll == InitScroll /\ [][NextScroll]_vars


\* ---- deleting a directory the store has an entry for ----
\* the store of an earlier session that scanned the start path and entered
\* and scanned its first child
ScannedBoth ==
    saveCacheToDisk(saveCacheToDisk(EmptyMap, startPath, <<SE(<<1, 2>>, 5), SE(<<1, 1>>, 3)>>),
                    <<1, 1>>, <<>>)

InitStored == InitWith(SmallTree, ScannedBoth)

\* the launch, the deletion flow and the exit
NextStored ==
    \/ Hydrate
    \/ BootScan
    \/ \E s \in 1..Len(scans) : ListingDone(s)
    \/ \E s \in 1..Len(scans) : \E i \in scans[s].inflight : MeasureDone(s, i)
    \/ \E s \in 1..Len(scans) : SizeDone(s)
    \/ \E s \in 1..Len(scans) : CatchScan(s)
    \/ MoveDown
    \/ \E p \in alphaReq : EnsureListingDone(p)
    \/ \E p \in visitDu : VisitDuDone(p)
    \/ RequestDelete
    \/ CancelDelete
    \/ ConfirmDelete
    \/ Resubscribe
    \/ ConfirmAgain
    \/ \E i \in 1..Len(rms) : RmDone(i)
    \/ \E i \in 1..Len(rms) : RmFail(i)
    \/ Quit

SpecStored == InitStored /\ [][NextStored]_vars


\* ---- going to the parent of the start path ----
\* stores an earlier session can have left behind in the sibling tree: none;
\* the start path and its parent, scanned as they are now
NavStores ==
    { EmptyMap,
      saveCacheToDisk(saveCacheToDisk(EmptyMap, startPath, <<SE(<<1, 1>>, 3)>>),
                      Root, <<SE(<<2>>, 6), SE(<<1>>, 4)>>) }

InitNav == \E store \in NavStores : InitWith(SiblingTree, store)

\* the launch, and the go-to-parent as the only input
NextNav ==
    \/ Hydrate
    \/ BootScan
    \/ \E s \in 1..Len(scans) : ListingDone(s)
    \/ \E s \in 1..Len(scans) : \E i \in scans[s].inflight : MeasureDone(s, i)
    \/ \E s \in 1..Len(scans) : SizeDone(s)
    \/ \E s \in 1..Len(scans) : CatchScan(s)
    \/ GoParent
    \/ ReselectFire
    \/ \E p \in alphaReq : EnsureListingDone(p)
    \/ \E p \in visitDu : VisitDuDone(p)

SpecNav == InitNav /\ [][NextNav]_vars

\* nothing is awaited any more: the mount has run, no timeout, listing, size
\* refresh or measurement is pending and every scan has come to its end
Quiescent ==
    /\ running /\ hydrated /\ ~BootPending /\ ~reselect.on
    /\ alphaReq = {} /\ visitDu = {}
    /\ \A s \in 1..Len(scans) : scans[s].pc \in {"done", "stale", "failed"} /\ scans[s].inflight = {}


\* ---- the claims ----

Committed(sc) == sc.pc \in {"sizing", "done"}

\* C1: when a scan of a path is in flight and a later scan of the same path
\* has been triggered, the earlier scan never commits: whatever the order in
\* which their measurements complete, a commit for a path is made only by an
\* invocation after which no scan of that path was triggered.
C1_SupersededNeverCommits ==
    [][\A s \in 1..Len(scans) :
         (running' /\ ~Committed(scans[s]) /\ Committed(scans'[s]))
         => (/\ ~\E t \in 1..Len(scans) : t > s /\ scans[t].p = scans[s].p
             /\ cache' = CommitEntry(cache, scans[s].p, sortResults(scans'[s].results)))]_vars

\* C1 witness: the earlier scan of a path measured all its children and was
\* discarded, the later scan of the same path committed.
C1_Witness ==
    \E s \in 1..Len(scans), t \in 1..Len(scans) :
       /\ s < t /\ scans[s].p = scans[t].p
       /\ scans[s].pc = "stale" /\ Len(scans[s].results) > 0
       /\ Len(scans[s].results) = Len(scans[s].alpha)
       /\ Committed(scans[t]) /\ Len(scans[t].results) > 0

\* C2: a scan is discarded only when a later scan of the same path was
\* triggered.
C2_DiscardedOnlyBySamePath ==
    \A s \in 1..Len(scans) :
       scans[s].pc = "stale" => \E t \in 1..Len(scans) : t > s /\ scans[t].p = scans[s].p

\* C3: a continuation of a scan whose token is no longer the latest changes
\* no cache entry, nor the progress display, the displayed size or the store.
C3_SupersededChangesNothing ==
    [][\A s \in 1..Len(scans) :
         (running' /\ s < scanSeq /\ scans'[s] # scans[s])
         => UNCHANGED <<cache, progressDirs, currentSizeKb, disk>>]_vars

StatusMove(a, b) ==
    \/ a = b
    \/ <<a, b>> \in {<<"unscanned", "scanning">>, <<"scanning", "scanned">>,
                     <<"scanning", "unscanned">>, <<"scanned", "scanning">>}

\* C4: the status of an entry changes only along Unscanned -> Scanning,
\* Scanning -> Scanned, Scanning -> Unscanned and Scanned -> Scanning (stated
\* here for every step but the load of the store, which replaces the entries).
C4_StatusMoves ==
    [][hydrated' = hydrated =>
         \A p \in (DOMAIN cache) \cap (DOMAIN cache') : StatusMove(cache[p].status, cache'[p].status)]_vars

\* C5: a triggerScan call for an entry that is Scanning, or that is Scanned
\* when force is false, allocates no token and starts nothing: no step hands
\* out a token to such a call.
C5_NoOpAllocatesNoToken ==
    [][(running' /\ Len(scans') > Len(scans)) =>
         LET n == scans'[Len(scans')]
         IN ~(/\ n.p \in DOMAIN cache
              /\ \/ cache[n.p].status = "scanning"
                 \/ (~n.force /\ cache[n.p].status = "scanned"))]_vars

RmSucceeds(i) == i \in 1..Len(rms) /\ i <= Len(rms') /\ rms[i].st = "running" /\ rms'[i].st = "ok"

RmStripped(i) ==
    LET X == rms[i].target
        Y == dirname(X)
    IN /\ X \notin DOMAIN cache'
       /\ Y \in DOMAIN cache'
       /\ cache'[Y].alphaDirs = FilterSeq(cache[Y].alphaDirs, LAMBDA d : d # X)
       /\ cache'[Y].dirs = FilterSeq(cache[Y].dirs, LAMBDA d : d.path # X)
       /\ X \notin Range(getNavigableList(cache', Y))

SortedDesc(dirs) == \A i \in 1..(Len(dirs) - 1) : dirs[i].kb >= dirs[i + 1].kb

\* C6: in every reachable state the sizedChildren of every cache entry are in
\* non-increasing order of size and at most TOP_N: after a commit, after the
\* load of a store the program wrote, after a deletion stripped a child.
C6_SortedTopN ==
    \A p \in DOMAIN cache : SortedDesc(cache[p].dirs) /\ Len(cache[p].dirs) <= TOP_N

\* C6 witness: a scan has committed TOP_N sized children, of unequal sizes,
\* for a directory that lists more than TOP_N
C6_Witness ==
    /\ startPath \in DOMAIN cache
    /\ cache[startPath].status = "scanned"
    /\ Len(cache[startPath].alphaDirs) > TOP_N
    /\ Len(cache[startPath].dirs) = TOP_N
    /\ cache[startPath].dirs[1].kb > cache[startPath].dirs[TOP_N].kb
    /\ \E s \in 1..Len(scans) : Committed(scans[s]) /\ Len(scans[s].results) > TOP_N

\* C7 as claimed: when the removal of child X of the current path Y succeeds,
\* X has no entry, Y's childPaths and sizedChildren lose X and nothing else,
\* and Y's navigable list is shorter by exactly one.
C7_DeleteShrinksByOne ==
    [][\A i \in 1..Len(rms) :
         (RmSucceeds(i) /\ dirname(rms[i].target) = currentPath /\ currentPath \in DOMAIN cache)
         => (RmStripped(i) /\ NavLen(cache', currentPath) = NavLen(cache, currentPath) - 1)]_vars

\* the removal of X empties Y's sizedChildren while childPaths lists others
FallsBackToAlpha(i) ==
    LET Y == dirname(rms[i].target)
    IN Len(cache[Y].dirs) > 0 /\ Len(cache'[Y].dirs) = 0 /\ Len(cache'[Y].alphaDirs) > 0

\* C7 as amended: X has no entry, Y's childPaths and sizedChildren lose X and
\* nothing else, and Y's navigable list is shorter by exactly one when X was
\* in it and the removal does not empty sizedChildren while childPaths still
\* lists other children.
C7_DeleteStripsChild ==
    [][\A i \in 1..Len(rms) :
         (RmSucceeds(i) /\ dirname(rms[i].target) = currentPath /\ currentPath \in DOMAIN cache)
         => /\ RmStripped(i)
            /\ (rms[i].target \in Range(getNavigableList(cache, currentPath)) /\ ~FallsBackToAlpha(i))
               => NavLen(cache', currentPath) = NavLen(cache, currentPath) - 1]_vars

\* C7 witness: a removal has succeeded for a child of the current path, which
\* is gone from the cache, from the filesystem and from the parent's lists
C7_Witness ==
    \E i \in 1..Len(rms) :
       /\ rms[i].st = "ok"
       /\ dirname(rms[i].target) = currentPath /\ currentPath \in DOMAIN cache
       /\ rms[i].target \notin DOMAIN cache /\ rms[i].target \notin fs
       /\ Len(getNavigableList(cache, currentPath)) > 0

\* C8: no step removes a path of the filesystem.
C8_NeverDeletes == [][fs' = fs]_vars

\* C9: when the removal fails, the prompt is in status confirm again for the
\* same target with the error set, and the cache, the current path, the
\* selection, the viewport and the token are unchanged.
C9_FailureBackToConfirm ==
    [][\A i \in 1..Len(rms) :
         (i <= Len(rms') /\ rms[i].st = "running" /\ rms'[i].st = "failed")
         => /\ deletePrompt' = [open |-> TRUE, path |-> rms[i].target, status |-> "confirm", error |-> TRUE]
            /\ UNCHANGED <<cache, currentPath, selectedIndex, viewOffset, scanSeq>>]_vars

\* C10: a cancel discards the pending target: when the prompt is dismissed by
\* a cancel, no removal of its target is left in flight.
C10_CancelDiscardsTarget ==
    [][(running' /\ deletePrompt.open /\ ~deletePrompt'.open /\ rms' = rms)
         => \A i \in 1..Len(rms) : rms[i].target = deletePrompt.path => rms[i].st # "running"]_vars

\* the selected index is an index of the current navigable list, 0 when the
\* list is empty
InRange == selectedIndex >= 0 /\ selectedIndex <= Max(0, NavLen(cache, currentPath) - 1)

\* C11: whenever the length of the current navigable list changes (a commit,
\* a deletion, a navigation, the load of the store, a listing that arrives),
\* the selected index ends up within [0, length - 1], 0 when the list is empty.
C11_ClampedOnLengthChange ==
    [][(running' /\ NavLen(cache', currentPath') # NavLen(cache, currentPath)) => InRange']_vars

\* C11 witness: one of the two listed children of the current path was
\* removed, the list is one shorter and the selection is on the child left
C11_Witness ==
    \E i \in 1..Len(rms) :
       /\ rms[i].st = "ok" /\ dirname(rms[i].target) = currentPath
       /\ rms[i].target = <<1, 2>>
       /\ getNavigableList(cache, currentPath) = << <<1, 1>> >>
       /\ selectedIndex = 0
       /\ cache[currentPath].alphaDirs = << <<1, 1>> >>

\* C12: after every operation that changes the selection, the selected index
\* lies inside the viewport: offset <= selected < offset + windowSize, the
\* offset being the one the rows are cut at.
C12_SelectionInViewport ==
    [][(running' /\ selectedIndex' # selectedIndex)
         => LET off == safeOffset(cache', currentPath', viewOffset')
            IN /\ off <= selectedIndex'
               /\ selectedIndex' < off + computeFolderViewportSize(cache', currentPath')]_vars

C14_HydrationMerges ==
    [][(running' /\ ~hydrated /\ hydrated')
         => /\ \A q \in DOMAIN disk : q \in DOMAIN cache' /\ cache'[q].status = "scanned"
            /\ \A q \in (DOMAIN cache) \ (DOMAIN disk) : q \in DOMAIN cache']_vars

\* C15: once the placeholder is inserted and the store is loaded, the boot
\* scan of the start path has been triggered or is about to be.
C15_BootScanTriggered ==
    (running /\ hydrated /\ ~bootScanned) => startPath \in DOMAIN cache

\* C16: an entry loaded from the store has its childPaths filled once the
\* user has navigated to its path: when the user has gone to the parent of
\* the start path, nothing has failed and nothing is awaited any more, the
\* parent's childPaths are the alphabetical listing of its children.
C16_VisitedEntryListed ==
    (Quiescent /\ failBudget = MaxFail /\ currentPath = Root /\ Root \in DOMAIN cache)
    => cache[Root].alphaDirs = alphaSort(listDirsViaFind(Root, fs))

\* C20: after going from the start path to its parent, with no other input
\* and no failure, once nothing is awaited any more the selection is on the
\* index of the start path in the parent's navigable list when it is listed,
\* and 0 otherwise.
C20_SelectionOnDepartedChild ==
    (Quiescent /\ failBudget = MaxFail /\ currentPath = Root)
    => LET list == getNavigableList(cache, Root)
       IN IF startPath \in Range(list)
          THEN selectedIndex = IndexOf(list, startPath) - 1
          ELSE selectedIndex = 0

\* C17: when the orchestration of a scan fails, its catch clause leaves the
\* entry of the scanned path with status unscanned and the error message and
\* with the sized children it had; the failure writes nothing to the store
\* and starts no scan, and a failed scan never commits afterwards.
C17_FailureHandled ==
    [][\A s \in 1..Min(Len(scans), Len(scans')) :
         LET q == scans[s].p
         IN /\ (scans[s].pc # "rejected" /\ scans'[s].pc = "rejected")
                 => (disk' = disk /\ scanSeq' = scanSeq /\ Len(scans') = Len(scans))
            /\ (scans[s].pc = "rejected" /\ scans'[s].pc = "failed")
                 => /\ q \in DOMAIN cache
                       => /\ q \in DOMAIN cache'
                          /\ cache'[q].status = "unscanned"
                          /\ cache'[q].msg = "Scan failed"
                          /\ cache'[q].dirs = cache[q].dirs
                    /\ disk' = disk
                    /\ scanSeq' = scanSeq
                    /\ Len(scans') = Len(scans)
            /\ scans[s].pc = "failed" => scans'[s].pc = "failed"]_vars

\* C17 witness: a scan of a path with committed sized children has failed;
\* the entry is unscanned with the error message and still has them
C17_Witness ==
    \E s \in 1..Len(scans) :
       /\ scans[s].pc = "failed"
       /\ scans[s].p \in DOMAIN cache
       /\ cache[scans[s].p].status = "unscanned"
       /\ cache[scans[s].p].msg = "Scan failed"
       /\ Len(cache[scans[s].p].dirs) > 0

\* C18: when the write to the store fails after a scan has completed, the
\* entry of the scanned path is scanned with the new sized children and has
\* no message, the store is as it was, and the scan goes on to its post-scan
\* steps (the size refresh, then the clearing of the progress display).
C18_WriteFailureIgnored ==
    [][\A s \in 1..Min(Len(scans), Len(scans')) :
         (~Committed(scans[s]) /\ Committed(scans'[s]) /\ failBudget' < failBudget)
         => LET q == scans[s].p
            IN /\ disk' = disk
               /\ scans'[s].pc = "sizing"
               /\ q \in DOMAIN cache
                    => /\ q \in DOMAIN cache'
                       /\ cache'[q].status = "scanned"
                       /\ cache'[q].msg = "none"
                       /\ cache'[q].dirs = sliceTopN(sortResults(scans'[s].results))]_vars

\* C18 witness: the newest scan has committed sized children, its write has
\* failed (the store has nothing for its path), and its post-scan steps have
\* run: the size is displayed and the progress display is cleared
C18_Witness ==
    \E s \in 1..Len(scans) :
       /\ s = scanSeq /\ scans[s].pc = "done" /\ failBudget < MaxFail
       /\ scans[s].p \notin DOMAIN disk
       /\ scans[s].p \in DOMAIN cache
       /\ cache[scans[s].p].status = "scanned"
       /\ cache[scans[s].p].msg = "none"
       /\ Len(cache[scans[s].p].dirs) > 0
       /\ currentSizeKb = runDuKb(scans[s].p, fs)
       /\ progressDirs = NoProgress

\* C19: entering the selected child C while browsing a non-empty list gives
\* currentPath = C, selected index 0, viewport offset 0, a cache entry for C
\* of status scanning, and a forced scan of C holding a token allocated by
\* this step.
C19_EnterChild ==
    [][(running' /\ currentPath' # currentPath /\ dirname(currentPath') = currentPath)
         => /\ Browsing
            /\ NavLen(cache, currentPath) > 0
            /\ currentPath' = selectedPath
            /\ selectedIndex' = 0
            /\ viewOffset' = 0
            /\ currentPath' \in DOMAIN cache'
            /\ cache'[currentPath'].status = "scanning"
            /\ scanSeq' = scanSeq + 1
            /\ Len(scans') = scanSeq'
            /\ scans'[scanSeq'].p = currentPath'
            /\ scans'[scanSeq'].force
            /\ scans'[scanSeq'].pc \in {"listing", "measuring", "rejected"}]_vars

\* C19 witness: the user has entered a child of the start path that had no
\* entry; the child is the current path with the cursor on row 0, its entry
\* is scanning and the newest scan is the forced scan of it
C19_Witness ==
    /\ running /\ scanSeq > 0 /\ Len(scans) = scanSeq
    /\ currentPath # startPath /\ dirname(currentPath) = startPath
    /\ selectedIndex = 0 /\ viewOffset = 0
    /\ currentPath \in DOMAIN cache /\ currentPath \notin DOMAIN disk
    /\ cache[currentPath].status = "scanning"
    /\ scans[scanSeq].p = currentPath /\ scans[scanSeq].force
    /\ scans[scanSeq].pc = "listing"

\* C21: the arrow keys move the selection over the navigable list (the sized
\* children when there are any, the child paths otherwise) of length len > 0
\* with wraparound: down from len - 1 gives 0, up from 0 gives len - 1, and
\* otherwise the index changes by exactly one.
C21_WrapAround ==
    [][LET e == cache[currentPath]
           len == IF Len(e.dirs) > 0 THEN Len(e.dirs) ELSE Len(e.alphaDirs)
       IN (currentPath \in DOMAIN cache /\ len > 0)
          => /\ MoveDown => selectedIndex' = IF selectedIndex = len - 1 THEN 0
                                             ELSE selectedIndex + 1
             /\ MoveUp => selectedIndex' = IF selectedIndex = 0 THEN len - 1
                                           ELSE selectedIndex - 1]_vars

\* C21 witness: the selection is on the last child path of an entry that has
\* no sized children yet, where the down arrow wraps to 0 and the up arrow
\* arrived from 0
C21_Witness ==
    /\ Browsing /\ currentPath \in DOMAIN cache
    /\ cache[currentPath].dirs = <<>>
    /\ Len(cache[currentPath].alphaDirs) > 2
    /\ selectedIndex = Len(cache[currentPath].alphaDirs) - 1

RescanInFlight(q) ==
    \/ \E s \in 1..Len(scans) :
         scans[s].p = q /\ scans[s].force /\ scans[s].pc \in {"listing", "measuring"}
    \/ /\ Len(scans') > Len(scans)
       /\ scans'[Len(scans')].p = q /\ scans'[Len(scans')].force

DirsKept(q) == q \in DOMAIN cache' /\ cache'[q].dirs = cache[q].dirs

CommitOf(q) ==
    \E s \in 1..Min(Len(scans), Len(scans')) :
       scans[s].p = q /\ ~Committed(scans[s]) /\ Committed(scans'[s])

C23_ScrollRule ==
    [][(MoveUp \/ MoveDown)
         => LET w == computeFolderViewportSize(cache, currentPath)
                sel == selectedIndex'
            IN viewOffset' = IF sel < viewOffset THEN sel
                             ELSE IF sel >= viewOffset + w THEN sel - w + 1
                             ELSE viewOffset]_vars

\* C23: the arrow keys set the offset to 0 when the whole list fits into
\* the window; otherwise to the selected index when it is above the window,
\* to selected - windowSize + 1 when it is below, and leave the offset as it
\* is when the selection is inside.  The selection is inside the window
\* afterwards.
C23_ScrollRuleUnlessFits ==
    [][(MoveUp \/ MoveDown)
         => LET len == NavLen(cache, currentPath)
                w == computeFolderViewportSize(cache, currentPath)
                sel == selectedIndex'
            IN /\ viewOffset' = IF len <= w THEN 0
                                ELSE IF sel < viewOffset THEN sel
                                ELSE IF sel >= viewOffset + w THEN sel - w + 1
                                ELSE viewOffset
               /\ viewOffset' <= sel
               /\ len > 0 => sel < viewOffset' + w]_vars

\* C23 witness: the offset was scrolled down while the entry was scanning,
\* and since the commit the whole list fits into the window
C23_Witness ==
    /\ Browsing /\ viewOffset > 0
    /\ cache[currentPath].status = "scanned"
    /\ NavLen(cache, currentPath) <= computeFolderViewportSize(cache, currentPath)
    /\ selectedIndex >= viewOffset

\* C24: in the worker pool of every scan at most CONCURRENCY measurements
\* are in flight, at most one per running worker, and a scan has gone past
\* its pool (to the stale check, the sort and the commit) only when no
\* worker runs any more and every child has a result.
C24_PoolBoundedAndJoined ==
    \A s \in 1..Len(scans) :
       /\ Cardinality(scans[s].inflight) <= CONCURRENCY
       /\ Cardinality(scans[s].inflight) <= scans[s].live
       /\ scans[s].live <= CONCURRENCY
       /\ (Committed(scans[s]) \/ (scans[s].pc = "stale" /\ Len(scans[s].results) > 0))
            => /\ scans[s].inflight = {} /\ scans[s].live = 0
               /\ Len(scans[s].results) = Len(scans[s].alpha)

\* C24 witness: a scan of more children than the pool has workers is
\* measuring with all its workers busy, one of them on a child it pulled
\* after its first
C24_Witness ==
    \E s \in 1..Len(scans) :
       /\ scans[s].pc = "measuring"
       /\ Len(scans[s].alpha) > CONCURRENCY
       /\ Cardinality(scans[s].inflight) = CONCURRENCY
       /\ Len(scans[s].results) > 0

\* C25: in every interleaving each child of a scan is pulled once: the
\* children pulled so far are those with a result and those being measured,
\* no child has two results or is measured while it has one, and a scan past
\* its pool has exactly one result per child.
C25_EachChildOnce ==
    \A s \in 1..Len(scans) :
       scans[s].pc \in {"measuring", "sizing", "done", "stale"}
       => LET sc == scans[s]
              total == Len(sc.alpha)
              measured == {k \in 1..total : \E r \in 1..Len(sc.results) : sc.results[r].path = sc.alpha[k]}
          IN /\ \A a, b \in 1..Len(sc.results) : a # b => sc.results[a].path # sc.results[b].path
             /\ \A r \in 1..Len(sc.results) : sc.results[r].path \in Range(sc.alpha)
             /\ measured \cap sc.inflight = {}
             /\ measured \cup sc.inflight = 1..Min(sc.idx, total)
             /\ sc.pc # "measuring" => Len(sc.results) = total

\* C25 witness: a scan of more children than workers has completed its pool
\* after a measurement overtook an older one, with one result per child
C25_Witness ==
    \E s \in 1..Len(scans) :
       /\ Committed(scans[s]) /\ scans[s].late > 0
       /\ Len(scans[s].alpha) > CONCURRENCY
       /\ Len(scans[s].results) = Len(scans[s].alpha)
       /\ {scans[s].results[r].path : r \in 1..Len(scans[s].results)} = Range(scans[s].alpha)

\* C26: while the newest scan measures, the progress display shows a count
\* out of the number of its children that is never above the number of
\* results and never below the count shown before; when its pool completes,
\* the display shows processed = total, whatever the throttle did with the
\* earlier updates.
C26_ProgressMonotone ==
    [][\A s \in 1..Min(Len(scans), Len(scans')) :
         (running' /\ s = scanSeq /\ scanSeq' = scanSeq /\ scans[s].pc \in {"listing", "measuring"})
         => LET total == Len(scans'[s].alpha)
            IN /\ scans[s].pc = "measuring"
                    => /\ progressDirs' # NoProgress
                       /\ progressDirs'[2] = total
                       /\ progressDirs'[1] <= total
                       /\ progressDirs'[1] <= Len(scans'[s].results)
                       /\ progressDirs # NoProgress => progressDirs'[1] >= progressDirs[1]
               /\ scans'[s].pc = "sizing" => progressDirs' = <<total, total>>]_vars

\* C26 witness: the pool of the newest scan, of more children than workers,
\* has just completed and the display shows all of them processed
C26_Witness ==
    \E s \in 1..Len(scans) :
       /\ s = scanSeq /\ scans[s].pc = "sizing"
       /\ Len(scans[s].alpha) > CONCURRENCY
       /\ progressDirs = <<Len(scans[s].alpha), Len(scans[s].alpha)>>

\* C27: at the filesystem root the go-to-parent key does nothing: no step
\* taken there is the go-to-parent, and none arms its re-selection timer.
C27_NoParentOfRoot ==
    [][(running /\ currentPath = Root)
         => /\ ~GoParent
            /\ ~(reselect'.on /\ ~reselect.on)]_vars

\* C27 witness: the user is browsing the filesystem root, reached by the
\* go-to-parent key, and tokens are left for another scan
C27_Witness ==
    /\ Browsing /\ currentPath = Root /\ Root \in DOMAIN cache
    /\ scanSeq > 0 /\ scanSeq < MaxSeq
    /\ \E s \in 1..Len(scans) : scans[s].p = Root /\ scans[s].force

\* C28: whenever an entry is scanning, a scan of its path is still awaited
\* that can commit or fail for it.
C28_ScanningHasScan ==
    \A q \in DOMAIN cache :
       (running /\ cache[q].status = "scanning")
       => \E s \in 1..Len(scans) :
            /\ scans[s].p = q
            /\ scans[s].pc \in {"listing", "measuring", "rejected"}

\* C30: once the removal of X has succeeded, the store has no entry for X:
\* loading it gives no cache entry for X.
C30_DeletedNotStored ==
    \A i \in 1..Len(rms) :
       rms[i].st = "ok" => rms[i].target \notin DOMAIN loadCacheFromDisk(disk)

\* C31: no two removals of the same target are in flight at the same time.
C31_OneRemovalPerTarget ==
    \A i, j \in 1..Len(rms) :
       (i # j /\ rms[i].target = rms[j].target)
       => ~(rms[i].st = "running" /\ rms[j].st = "running")


\* C32: whenever the application is browsing (running, no delete prompt
\* shown) no removal is in flight.
C32_BrowsingNoRemoval ==
    (running /\ ~deletePrompt.open) => \A i \in 1..Len(rms) : rms[i].st # "running"


\* C33: a step that puts a size on display puts the size of the directory
\* that is the current path after the step: no measurement of a path the
\* user has left overwrites the displayed size.
C33_SizeOfCurrentPath ==
    [][(currentSizeKb' # currentSizeKb /\ currentSizeKb' # NoSize)
         => currentSizeKb' = runDuKb(currentPath', fs')]_vars

====
